---- MODULE Spec2Model ----
(***************************************************************************)
(* State-machine model of polygon/rest/reference.py: the REST client's     *)
(* endpoint methods (MarketsClient, TickersClient, SplitsClient,           *)
(* DividendsClient, ConditionsClient, ExchangesClient) together with the   *)
(* BaseClient layer they delegate to (_get_params, _get, _paginate) and    *)
(* the models' from_dict decoders.  reference.py is the only source file   *)
(* present; the BaseClient layer and the decoders are modelled from the    *)
(* design document (sections 4.1 - 4.4).                                   *)
(***************************************************************************)
EXTENDS Integers, Sequences, FiniteSets, TLC

VARIABLES server, seq, ret

vars == <<server, seq, ret>>

(***************************************************************************)
(* Bounds of the model.                                                    *)
(***************************************************************************)
\* largest number of pages a listing endpoint serves
MaxPages == 2
\* largest number of records in one page / one array body
MaxPageLen == 2
\* largest number of parameters (named plus free-form) one call supplies
MaxSupplied == 2

\* a Python value: its type t and, by type, a string v, a number n (a float
\* is kept in tenths), a truth value b or a date y-m-d; an enumeration
\* member carries the type u of its .value
Value(t, u, v, n, b, y, m, d) ==
    [t |-> t, u |-> u, v |-> v, n |-> n, b |-> b, y |-> y, m |-> m, d |-> d]

\* Python's None as an argument value
None == Value("none", "", "", 0, FALSE, 0, 0, 0)

(***************************************************************************)
(* Parameter names.  A Python argument name is kept as the sequence of its *)
(* words, i.e. the name split at "_": ex_dividend_date_lt is               *)
(* <<"ex", "dividend", "date", "lt">>.                                     *)
(***************************************************************************)
RECURSIVE Join(_, _)
Join(ws, sep) ==
    IF Len(ws) = 0 THEN ""
    ELSE IF Len(ws) = 1 THEN ws[1]
    ELSE ws[1] \o sep \o Join(Tail(ws), sep)

\* the argument name as written in the signature
ArgName(p) == Join(p, "_")

Suffixes == {"lt", "lte", "gt", "gte"}

\* field, field_lt, field_lte, field_gt, field_gte, in declaration order
Family(f) ==
    <<f, Append(f, "lt"), Append(f, "lte"), Append(f, "gt"), Append(f, "gte")>>

ListingMethods ==
    {"list_tickers", "list_ticker_news", "list_splits", "list_dividends",
     "list_conditions"}

SingleMethods ==
    {"get_market_holidays", "get_market_status", "get_ticker_details",
     "get_ticker_types", "get_exchanges"}

\* The named parameters each method declares, in declaration order
\* (self, params and raw excluded).
Parameters(m) ==
    CASE m = "list_tickers" ->
           Family(<<"ticker">>)
           \o <<<<"type">>, <<"market">>, <<"exchange">>, <<"cusip">>,
                <<"cik">>, <<"date">>, <<"active">>, <<"search">>,
                <<"limit">>, <<"sort">>, <<"order">>>>
      [] m = "list_ticker_news" ->
           Family(<<"ticker">>) \o Family(<<"published", "utc">>)
      [] m = "list_splits" ->
           Family(<<"ticker">>) \o Family(<<"execution", "date">>)
           \o <<<<"reverse", "split">>, <<"limit">>, <<"sort">>, <<"order">>>>
      [] m = "list_dividends" ->
           Family(<<"ticker">>)
           \o Family(<<"ex", "dividend", "date">>)
           \o Family(<<"record", "date">>)
           \o Family(<<"declaration", "date">>)
           \o Family(<<"pay", "date">>)
           \o <<<<"frequency">>>>
           \o Family(<<"cash", "amount">>)
           \o <<<<"dividend", "type">>, <<"limit">>, <<"sort">>, <<"order">>>>
      [] m = "list_conditions" ->
           <<<<"asset", "class">>, <<"data", "type">>, <<"id">>, <<"sip">>,
             <<"limit">>, <<"sort">>, <<"order">>>>
      [] m = "get_ticker_details" -> <<<<"ticker">>, <<"date">>>>
      [] m = "get_ticker_types" -> <<<<"asset", "class">>, <<"locale">>>>
      [] m = "get_exchanges" -> <<<<"asset", "class">>, <<"locale">>>>
      [] m = "get_market_holidays" -> <<>>
      [] m = "get_market_status" -> <<>>

\* inspect.signature(fn).parameters, as a set of names
Signature(m) == {Parameters(m)[i] : i \in 1..Len(Parameters(m))}

(***************************************************************************)
(* Argument values, by the annotations of the signatures: str, int, bool,  *)
(* float, a member of an enumeration of .models (Sort, Order, AssetClass,  *)
(* Locale, DataType, SIP, DividendType, Frequency) or a datetime.date.     *)
(***************************************************************************)
Str(s) == Value("str", "", s, 0, FALSE, 0, 0, 0)
Num(n) == Value("int", "", "", n, FALSE, 0, 0, 0)
Bool(b) == Value("bool", "", "", 0, b, 0, 0, 0)
Float(tenths) == Value("float", "", "", tenths, FALSE, 0, 0, 0)
\* a member whose .value is the string s (Sort.ASC, ...)
EnumMember(s) == Value("enum", "str", s, 0, FALSE, 0, 0, 0)
\* a member whose .value is the number n (Frequency.QUARTERLY = 4)
IntEnumMember(n) == Value("enum", "int", "", n, FALSE, 0, 0, 0)
Date(y, m, d) == Value("date", "", "", 0, FALSE, y, m, d)

HasSuffix(p) == Len(p) > 1 /\ p[Len(p)] \in Suffixes

\* the field a parameter filters on: the name without its comparison suffix
FieldOf(p) == IF HasSuffix(p) THEN SubSeq(p, 1, Len(p) - 1) ELSE p

\* parameters annotated Optional[int]
IntFields == {<<"cusip">>, <<"cik">>, <<"limit">>, <<"id">>}

\* parameters annotated Optional[bool]
BoolFields == {<<"active">>, <<"reverse", "split">>}

\* parameters annotated Optional[float]
FloatFields == {<<"cash", "amount">>}

\* parameters annotated Optional[Union[str, <Enum>]]
EnumFields ==
    {<<"sort">>, <<"order">>, <<"asset", "class">>, <<"locale">>,
     <<"data", "type">>, <<"sip">>, <<"dividend", "type">>}

\* parameters annotated Optional[Union[int, Frequency]]
IntEnumFields == {<<"frequency">>}

\* parameters annotated Optional[Union[str, date]]
DateFields ==
    {<<"execution", "date">>, <<"ex", "dividend", "date">>,
     <<"record", "date">>, <<"declaration", "date">>, <<"pay", "date">>}

\* the values a caller may pass for parameter p, by its annotation; the
\* numbers and truth values include the falsy 0, 0.0 and False
ValuesOf(p) ==
    IF FieldOf(p) \in IntFields THEN {Num(0), Num(2)}
    ELSE IF FieldOf(p) \in BoolFields THEN {Bool(FALSE), Bool(TRUE)}
    ELSE IF FieldOf(p) \in FloatFields THEN {Float(0), Float(25)}
    ELSE IF FieldOf(p) \in EnumFields THEN {Str("a"), EnumMember("asc")}
    ELSE IF FieldOf(p) \in IntEnumFields THEN {Num(0), IntEnumMember(4)}
    ELSE IF FieldOf(p) \in DateFields THEN {Str("a"), Date(2022, 1, 5)}
    ELSE {Str("a"), Str("b")}

(***************************************************************************)
(* Parameter Builder (_get_params).                                        *)
(***************************************************************************)
Pad(n, w) == IF w = 4 THEN ToString(n)
             ELSE IF n < 10 THEN "0" \o ToString(n) ELSE ToString(n)

\* normalisation of one value to the value put into the query mapping: an
\* enumeration member becomes its .value, a date its YYYY-MM-DD string;
\* strings, numbers and truth values are passed as they are
Wire(val) ==
    CASE val.t = "enum" -> IF val.u = "str" THEN Str(val.v) ELSE Num(val.n)
      [] val.t = "date" ->
           Str(Pad(val.y, 4) \o "-" \o Pad(val.m, 2) \o "-" \o Pad(val.d, 2))
      [] OTHER -> val

\* argname -> query key: only the comparison suffix is dotted
QueryKey(p) ==
    IF HasSuffix(p)
    THEN Join(FieldOf(p), "_") \o "." \o p[Len(p)]
    ELSE Join(p, "_")

\* dict update: entries of g win over entries of f
Merge(f, g) ==
    [k \in (DOMAIN f) \cup (DOMAIN g) |-> IF k \in DOMAIN g THEN g[k] ELSE f[k]]

\* a default that is not None: the parameter is sent although unset
DefaultNotNone(m, p) == IF p = <<"limit">> THEN Num(10) ELSE None

\* the default every named parameter is declared with (= None)
Default(m, p) == None

\* locals() of a call: each declared parameter bound to the supplied value,
\* or to its default when the caller left it unset
Locals(m, named) ==
    [p \in Signature(m) |-> IF p \in DOMAIN named THEN named[p] ELSE Default(m, p)]

\* the mapping computed from the declared arguments: one key per argument
\* whose value is not None
Computed(locals) ==
    LET set == {p \in DOMAIN locals : locals[p] # None}
    IN  [k \in {QueryKey(p) : p \in set} |->
            Wire(locals[CHOOSE p \in set : QueryKey(p) = k])]

\* _get_params(fn, locals()): computed entries first, then the caller's
\* free-form params mapping merged in last
get_params(locals, extra) == Merge(Computed(locals), extra)

\* the method forwards only the free-form mapping
ParamsOnly(m, named, extra) == extra

\* the method leaves the free-form mapping out
NamedOnly(m, named, extra) == get_params(Locals(m, named), <<>>)

\* params= argument of the listing methods' _paginate call:
\* self._get_params(self.<method>, locals())
ListingParams(m, named, extra) == get_params(Locals(m, named), extra)

\* params= argument of the single-response methods' _get call: params
SingleParams(m, named, extra) == extra

(***************************************************************************)
(* JSON values, typed records and the Typed Decoder (from_dict).           *)
(***************************************************************************)
\* a JSON object (fields: a record) and a JSON array (items: a sequence)
Obj(fields) == [t |-> "obj", v |-> fields]
Arr(items) == [t |-> "arr", v |-> items]

RecordId(k, i) == "r" \o ToString(k) \o "_" \o ToString(i)

\* the JSON object the server holds as record i of page k; it carries one
\* key the record types do not declare
JsonRecord(k, i) == Obj([id |-> RecordId(k, i), unknown |-> "u"])

\* <Type>.from_dict: declared fields looked up by key, absent ones None,
\* undeclared keys ignored
from_dict(type, o) ==
    [type |-> type, id |-> IF "id" \in DOMAIN o.v THEN o.v.id ELSE "None"]

\* the path each method requests
Path(m, named) ==
    CASE m = "get_market_holidays" -> "/v1/marketstatus/upcoming"
      [] m = "get_market_status" -> "/v1/marketstatus/now"
      [] m = "list_tickers" -> "/v3/reference/tickers"
      [] m = "get_ticker_details" ->
           "/v3/reference/tickers/"
           \o (IF <<"ticker">> \in DOMAIN named
               THEN Wire(named[<<"ticker">>]).v ELSE "None")
      [] m = "list_ticker_news" -> "/v2/reference/news"
      [] m = "get_ticker_types" -> "/v3/reference/tickers/types"
      [] m = "list_splits" -> "/v3/reference/splits"
      [] m = "list_dividends" -> "/v3/reference/dividends"
      [] m = "list_conditions" -> "/v3/reference/conditions"
      [] m = "get_exchanges" -> "/v3/reference/exchanges"

\* deserializer= argument of each method
Deserializer(m) ==
    CASE m = "get_market_holidays" -> "MarketHoliday"
      [] m = "get_market_status" -> "MarketStatus"
      [] m = "list_tickers" -> "Ticker"
      [] m = "get_ticker_details" -> "TickerDetails"
      [] m = "list_ticker_news" -> "TickerNews"
      [] m = "get_ticker_types" -> "TickerTypes"
      [] m = "list_splits" -> "Split"
      [] m = "list_dividends" -> "Dividend"
      [] m = "list_conditions" -> "Condition"
      [] m = "get_exchanges" -> "Exchange"

\* _get's result_key when the caller passes none: the whole body
DefaultResultKey == ""

\* every single-response method unwraps "results"
ResultKeyAlwaysResults(m) == "results"

\* result_key= argument of the single-response methods' _get call
ResultKey(m) ==
    CASE m = "get_market_holidays" -> ""
      [] m = "get_market_status" -> DefaultResultKey
      [] m = "get_ticker_details" -> "results"
      [] m = "get_ticker_types" -> "results"
      [] m = "get_exchanges" -> "results"

\* the method always asks for the raw response
RawAlways(m, raw) == TRUE

\* the method never asks for the raw response
RawNever(m, raw) == FALSE

\* raw= argument of each method's _get / _paginate call: raw
RawArg(m, raw) == raw

(***************************************************************************)
(* The HTTP server (external).  A listing endpoint serves Len(sizes)       *)
(* pages; page k holds sizes[k] records and, unless it is the last, the    *)
(* cursor of page k+1.  At most one page is faulty: it answers with a      *)
(* non-success status ("http") or with a body that is not JSON ("json").   *)
(***************************************************************************)
NoFault == [page |-> 0, kind |-> "none"]

Servers ==
    UNION {
      {[sizes |-> sz, fault |-> f] :
          sz \in [1..n -> 0..MaxPageLen],
          f \in {NoFault} \cup [page : 1..n, kind : {"http", "json"}]}
      : n \in 1..MaxPages}

NPages(srv) == Len(srv.sizes)

PageItems(k, n) == [i \in 1..n |-> JsonRecord(k, i)]

Envelope(srv, k) ==
    IF k < NPages(srv)
    THEN Obj([results |-> Arr(PageItems(k, srv.sizes[k])),
              next_url |-> ToString(k + 1)])
    ELSE Obj([results |-> Arr(PageItems(k, srv.sizes[k]))])

Request(path, query) == [verb |-> "GET", path |-> path, query |-> query]

\* the page a request addresses: page one unless it carries a cursor
PageOf(req) ==
    IF "cursor" \in DOMAIN req.query
    THEN CHOOSE k \in 1..(MaxPages + 1) : ToString(k) = req.query["cursor"].v
    ELSE 1

Serve(srv, req) ==
    LET k == PageOf(req)
    IN  [status |-> IF srv.fault = [page |-> k, kind |-> "http"] THEN 500 ELSE 200,
         body |-> [valid |-> srv.fault # [page |-> k, kind |-> "json"],
                   json |-> Envelope(srv, k)]]

NoResponse == [status |-> 0, body |-> [valid |-> FALSE, json |-> Arr(<<>>)]]

(***************************************************************************)
(* Request Executor (_get): one GET, then raw or decoded.                  *)
(***************************************************************************)
Outcome(kind, error, resp, records, single, parsed, env) ==
    [kind |-> kind, error |-> error, response |-> resp, records |-> records,
     single |-> single, parsed |-> parsed, envelope |-> env]

get(resp, deser, result_key, raw) ==
    IF resp.status # 200
    THEN Outcome("error", "HTTPError", NoResponse, <<>>, FALSE, FALSE, Arr(<<>>))
    ELSE IF raw
    THEN Outcome("raw", "", resp, <<>>, FALSE, FALSE, Arr(<<>>))
    ELSE IF ~resp.body.valid
    THEN Outcome("error", "DecodeError", NoResponse, <<>>, FALSE, TRUE, Arr(<<>>))
    ELSE LET body == resp.body.json
         IN  IF result_key # ""
                /\ (body.t # "obj" \/ result_key \notin DOMAIN body.v)
             THEN Outcome("error", "DecodeError", NoResponse, <<>>, FALSE, TRUE, body)
             ELSE LET val == IF result_key = "" THEN body ELSE body.v[result_key]
                  IN  IF val.t = "arr"
                      THEN Outcome("decoded", "", NoResponse,
                                   [i \in 1..Len(val.v) |-> from_dict(deser, val.v[i])],
                                   FALSE, TRUE, body)
                      ELSE Outcome("decoded", "", NoResponse,
                                   <<from_dict(deser, val)>>, TRUE, TRUE, body)

(***************************************************************************)
(* Paginator (_paginate) and the sequences it returns.                     *)
(***************************************************************************)
\* the variables of the caller that hold the results of listing calls
SeqIds == {"s1", "s2"}

NoArgs == [named |-> <<>>, extra |-> <<>>, raw |-> FALSE]

\* a variable no call has been assigned to
Idle ==
    [st |-> "NONE", method |-> "", args |-> NoArgs, deser |-> "", path |-> "",
     query |-> <<>>, buffer |-> <<>>, next |-> "", yielded |-> <<>>,
     requests |-> <<>>, error |-> "", response |-> NoResponse,
     parsed |-> 0, advances |-> 0]

\* the cursor a page envelope carries ("" when it carries none)
NextCursor(env) ==
    IF env.t = "obj" /\ "next_url" \in DOMAIN env.v THEN env.v.next_url ELSE ""

\* _paginate(path, params, raw, deserializer): with raw, the first page's
\* response as _get returns it; otherwise a fresh lazy sequence in FETCHING
paginate(srv, path, params, raw, deser) ==
    IF raw
    THEN LET req == Request(path, params)
             out == get(Serve(srv, req), deser, "results", TRUE)
         IN  [Idle EXCEPT !.st = IF out.kind = "error" THEN "RAISED" ELSE "RAW",
                          !.deser = deser, !.path = path, !.query = params,
                          !.requests = <<req>>, !.error = out.error,
                          !.response = out.response,
                          !.parsed = IF out.parsed THEN 1 ELSE 0]
    ELSE [Idle EXCEPT !.st = "FETCHING", !.deser = deser, !.path = path,
                      !.query = params]

\* one advancement of a sequence (one next() of the consumer), run up to the
\* record it hands out, the end of the sequence, or the failure it raises
RECURSIVE Drive(_, _)
Drive(srv, s) ==
    IF s.buffer # <<>>
    THEN [s EXCEPT !.st = "YIELDING", !.buffer = Tail(@),
                   !.yielded = Append(@, Head(s.buffer))]
    ELSE IF s.st = "YIELDING"
    THEN IF s.next # ""
         THEN Drive(srv, [s EXCEPT !.st = "FETCHING",
                                   !.query = Merge(@, [cursor |-> Str(s.next)])])
         ELSE [s EXCEPT !.st = "EXHAUSTED"]
    ELSE LET req == Request(s.path, s.query)
             out == get(Serve(srv, req), s.deser, "results", FALSE)
             sent == [s EXCEPT !.requests = Append(@, req),
                               !.parsed = IF out.parsed THEN @ + 1 ELSE @]
         IN  IF out.kind = "error"
             THEN [sent EXCEPT !.st = "FAILED", !.error = out.error]
             ELSE Drive(srv, [sent EXCEPT !.st = "YIELDING",
                                          !.buffer = out.records,
                                          !.next = NextCursor(out.envelope)])

(***************************************************************************)
(* Inputs of a call: the named arguments the caller supplies (a function   *)
(* from a subset of the signature to values), the free-form params mapping *)
(* and the raw flag.                                                       *)
(***************************************************************************)
\* the sets of at most k positions among lo..n
RECURSIVE Positions(_, _, _)
Positions(lo, n, k) ==
    IF k = 0 \/ lo > n THEN {{}}
    ELSE {{}} \cup UNION {{{i} \cup T : T \in Positions(i + 1, n, k - 1)} : i \in lo..n}

\* the ways to supply the parameters at positions T of method m
Assignments(m, T) ==
    LET S == {Parameters(m)[i] : i \in T}
    IN  {f \in [S -> UNION {ValuesOf(p) : p \in S}] : \A p \in S : f[p] \in ValuesOf(p)}

\* keys of the free-form mapping: the keys of the signature and a new one
ExtraKeys(m) == {QueryKey(p) : p \in Signature(m)} \cup {"foo"}

Extras(m) == {<<>>} \cup {[k \in {key} |-> Str("x")] : key \in ExtraKeys(m)}

\* the sets of positions of at most k parameters of method m
PositionSets(m, k) == Positions(1, Len(Parameters(m)), k)

\* the inputs of method m that supply the parameters at positions T and at
\* most k parameters in all (named ones plus at most one free-form entry)
InputsAt(m, T, k) ==
    {[named |-> f, extra |-> e, raw |-> r] :
        f \in Assignments(m, T),
        e \in IF Cardinality(T) < k THEN Extras(m) ELSE {<<>>},
        r \in BOOLEAN}

(***************************************************************************)
(* The responses a single-response endpoint may give.                      *)
(***************************************************************************)
SingleBodies ==
    {JsonRecord(1, 1), Obj([status |-> "OK"]),
     Obj([results |-> JsonRecord(1, 1)]),
     Obj([results |-> JsonRecord(1, 1), next_url |-> "2"])}
    \cup {Arr(PageItems(1, n)) : n \in 0..MaxPageLen}
    \cup {Obj([results |-> Arr(PageItems(1, n))]) : n \in 0..MaxPageLen}
    \cup {Obj([results |-> Arr(PageItems(1, n)), next_url |-> "2"]) :
            n \in 0..MaxPageLen}

SingleResponses ==
    {[status |-> 200, body |-> [valid |-> TRUE, json |-> j]] : j \in SingleBodies}
    \cup {[status |-> 200, body |-> [valid |-> FALSE, json |-> Arr(<<>>)]],
          [status |-> 500, body |-> [valid |-> TRUE, json |-> Obj([status |-> "ERROR"])]]}

NoRet ==
    [called |-> FALSE, method |-> "", args |-> NoArgs, served |-> NoResponse,
     requests |-> <<>>,
     outcome |-> Outcome("", "", NoResponse, <<>>, FALSE, FALSE, Arr(<<>>))]

(***************************************************************************)
(* Operations.                                                             *)
(***************************************************************************)
\* what a listing method returns: self._paginate(path=url,
\* params=self._get_params(self.<method>, locals()), raw=raw,
\* deserializer=<Type>.from_dict)
ListingResult(srv, m, inp) ==
    [paginate(srv, Path(m, inp.named), ListingParams(m, inp.named, inp.extra),
              RawArg(m, inp.raw), Deserializer(m))
     EXCEPT !.method = m, !.args = inp]

\* body shared by the listing methods, the result bound to the caller's h
ListingCall(h, m, inp) ==
    /\ seq[h].st = "NONE"
    /\ seq' = [seq EXCEPT ![h] = ListingResult(server, m, inp)]
    /\ UNCHANGED <<server, ret>>

\* a sequence consumed to its end (or failure) on the spot
RECURSIVE DrainAll(_, _)
DrainAll(srv, s) ==
    IF s.st \in {"FETCHING", "YIELDING"} THEN DrainAll(srv, Drive(srv, s)) ELSE s

\* a listing method that returns list(self._paginate(...)): every page is
\* fetched during the call and a failure is raised by the call
EagerCall(h, m, inp) ==
    /\ seq[h].st = "NONE"
    /\ LET d == DrainAll(server, ListingResult(server, m, inp))
       IN  seq' = [seq EXCEPT ![h] =
                     IF d.st = "EXHAUSTED"
                     THEN [d EXCEPT !.st = "YIELDING", !.buffer = d.yielded,
                                    !.yielded = <<>>]
                     ELSE [d EXCEPT !.yielded = <<>>]]
    /\ UNCHANGED <<server, ret>>

\* a listing method that memoises its result: a second call is handed the
\* iterator of an earlier call, at the position that one has reached
CachedCall(h, m, inp) ==
    /\ seq[h].st = "NONE"
    /\ LET earlier == {g \in SeqIds : seq[g].method = m /\ seq[g].args = inp}
       IN  seq' = [seq EXCEPT ![h] =
                     IF earlier = {} THEN ListingResult(server, m, inp)
                     ELSE [seq[CHOOSE g \in earlier : TRUE]
                           EXCEPT !.yielded = <<>>, !.advances = 0]]
    /\ UNCHANGED <<server, ret>>

\* body shared by the single-response methods: return self._get(path=url,
\* params=params, deserializer=<Type>.from_dict, raw=raw, result_key=...);
\* resp is the server's answer to the one request
SingleCall(m, inp, resp) ==
    /\ ret' = [called |-> TRUE, method |-> m, args |-> inp, served |-> resp,
               requests |-> <<Request(Path(m, inp.named),
                                      SingleParams(m, inp.named, inp.extra))>>,
               outcome |-> get(resp, Deserializer(m), ResultKey(m),
                               RawArg(m, inp.raw))]
    /\ UNCHANGED <<server, seq>>

get_market_holidays(inp, resp) == SingleCall("get_market_holidays", inp, resp)

get_market_status(inp, resp) == SingleCall("get_market_status", inp, resp)

list_tickers_cached(h, inp) == CachedCall(h, "list_tickers", inp)

list_tickers(h, inp) == ListingCall(h, "list_tickers", inp)

get_ticker_details(inp, resp) == SingleCall("get_ticker_details", inp, resp)

list_ticker_news_eager(h, inp) == EagerCall(h, "list_ticker_news", inp)

list_ticker_news(h, inp) == ListingCall(h, "list_ticker_news", inp)

get_ticker_types(inp, resp) == SingleCall("get_ticker_types", inp, resp)

list_splits_eager(h, inp) == EagerCall(h, "list_splits", inp)

list_splits(h, inp) == ListingCall(h, "list_splits", inp)

list_dividends(h, inp) == ListingCall(h, "list_dividends", inp)

list_conditions(h, inp) == ListingCall(h, "list_conditions", inp)

get_exchanges(inp, resp) == SingleCall("get_exchanges", inp, resp)

\* the consumer advances the sequence held in h by one element
Advance(h) ==
    /\ seq[h].st \in {"FETCHING", "YIELDING"}
    /\ seq' = [seq EXCEPT ![h] = [Drive(server, seq[h]) EXCEPT !.advances = @ + 1]]
    /\ UNCHANGED <<server, ret>>

(***************************************************************************)
(* Spec: a caller holding up to two listing results against any server,    *)
(* advancing them in any interleaving.                                     *)
(***************************************************************************)
Init ==
    /\ server \in Servers
    /\ seq = [h \in SeqIds |-> Idle]
    /\ ret = NoRet

Next ==
    \/ \E h \in SeqIds : \E T \in PositionSets("list_tickers", 0) :
         \E inp \in InputsAt("list_tickers", T, 0) : list_tickers(h, inp)
    \/ \E h \in SeqIds : \E T \in PositionSets("list_ticker_news", 0) :
         \E inp \in InputsAt("list_ticker_news", T, 0) : list_ticker_news(h, inp)
    \/ \E h \in SeqIds : \E T \in PositionSets("list_splits", 0) :
         \E inp \in InputsAt("list_splits", T, 0) : list_splits(h, inp)
    \/ \E h \in SeqIds : \E T \in PositionSets("list_dividends", 0) :
         \E inp \in InputsAt("list_dividends", T, 0) : list_dividends(h, inp)
    \/ \E h \in SeqIds : \E T \in PositionSets("list_conditions", 0) :
         \E inp \in InputsAt("list_conditions", T, 0) : list_conditions(h, inp)
    \/ \E h \in SeqIds : Advance(h)

Spec == Init /\ [][Next]_vars

(***************************************************************************)
(* SpecCall: one call of any method with up to MaxSupplied parameters,     *)
(* against a one-page listing endpoint; a listing result is then consumed. *)
(***************************************************************************)
OnePageServer == [sizes |-> <<1>>, fault |-> NoFault]

Fresh == ret = NoRet /\ \A h \in SeqIds : seq[h] = Idle

InitCall ==
    /\ server = OnePageServer
    /\ seq = [h \in SeqIds |-> Idle]
    /\ ret = NoRet

NextCall ==
    \/ Fresh /\ \E T \in PositionSets("list_tickers", MaxSupplied) :
         \E inp \in InputsAt("list_tickers", T, MaxSupplied) : list_tickers("s1", inp)
    \/ Fresh /\ \E T \in PositionSets("list_ticker_news", MaxSupplied) :
         \E inp \in InputsAt("list_ticker_news", T, MaxSupplied) : list_ticker_news("s1", inp)
    \/ Fresh /\ \E T \in PositionSets("list_splits", MaxSupplied) :
         \E inp \in InputsAt("list_splits", T, MaxSupplied) : list_splits("s1", inp)
    \/ Fresh /\ \E T \in PositionSets("list_dividends", MaxSupplied) :
         \E inp \in InputsAt("list_dividends", T, MaxSupplied) : list_dividends("s1", inp)
    \/ Fresh /\ \E T \in PositionSets("list_conditions", MaxSupplied) :
         \E inp \in InputsAt("list_conditions", T, MaxSupplied) : list_conditions("s1", inp)
    \/ Fresh /\ \E resp \in SingleResponses : \E T \in PositionSets("get_market_holidays", MaxSupplied) :
         \E inp \in InputsAt("get_market_holidays", T, MaxSupplied) : get_market_holidays(inp, resp)
    \/ Fresh /\ \E resp \in SingleResponses : \E T \in PositionSets("get_market_status", MaxSupplied) :
         \E inp \in InputsAt("get_market_status", T, MaxSupplied) : get_market_status(inp, resp)
    \/ Fresh /\ \E resp \in SingleResponses : \E T \in PositionSets("get_ticker_details", MaxSupplied) :
         \E inp \in InputsAt("get_ticker_details", T, MaxSupplied) : get_ticker_details(inp, resp)
    \/ Fresh /\ \E resp \in SingleResponses : \E T \in PositionSets("get_ticker_types", MaxSupplied) :
         \E inp \in InputsAt("get_ticker_types", T, MaxSupplied) : get_ticker_types(inp, resp)
    \/ Fresh /\ \E resp \in SingleResponses : \E T \in PositionSets("get_exchanges", MaxSupplied) :
         \E inp \in InputsAt("get_exchanges", T, MaxSupplied) : get_exchanges(inp, resp)
    \/ Advance("s1")

SpecCall == InitCall /\ [][NextCall]_vars

(***************************************************************************)
(* Properties.                                                             *)
(***************************************************************************)
\* ids of the records the server holds in pages 1..k, in page and array order
RECURSIVE IdsUpTo(_, _)
IdsUpTo(srv, k) ==
    IF k = 0 THEN <<>>
    ELSE IdsUpTo(srv, k - 1) \o [i \in 1..srv.sizes[k] |-> RecordId(k, i)]

AllIds(srv) == IdsUpTo(srv, NPages(srv))

\* for each record of AllIds, the page that holds it
RECURSIVE RecordPagesUpTo(_, _)
RecordPagesUpTo(srv, k) ==
    IF k = 0 THEN <<>>
    ELSE RecordPagesUpTo(srv, k - 1) \o [i \in 1..srv.sizes[k] |-> k]

Ids(recs) == [i \in 1..Len(recs) |-> recs[i].id]

IsPrefix(a, b) == Len(a) <= Len(b) /\ a = SubSeq(b, 1, Len(a))

\* the sequences obtained by non-raw listing calls
Paged(h) == seq[h].st # "NONE" /\ ~seq[h].args.raw

\* C1: a non-raw listing call against a server whose pages are all served
\* yields, when fully consumed, exactly the records of pages 1..N in page
\* order and array order, none twice and none left out, and then ends; the
\* pages are requested in cursor order.
C1_Exhaustive ==
    \A h \in SeqIds :
      LET s == seq[h]
      IN  (Paged(h) /\ server.fault = NoFault) =>
            /\ s.st \in {"FETCHING", "YIELDING", "EXHAUSTED"}
            /\ IsPrefix(Ids(s.yielded), AllIds(server))
            /\ Len(s.yielded) = IF s.advances <= Len(AllIds(server))
                                THEN s.advances ELSE Len(AllIds(server))
            /\ (s.st = "EXHAUSTED") = (s.advances > Len(AllIds(server)))
            /\ s.st = "EXHAUSTED" =>
                 /\ Ids(s.yielded) = AllIds(server)
                 /\ Len(s.requests) = NPages(server)
            /\ \A i \in 1..Len(s.requests) : PageOf(s.requests[i]) = i

C1_Witness ==
    \E h \in SeqIds :
      /\ Paged(h) /\ server.fault = NoFault
      /\ seq[h].st = "EXHAUSTED"
      /\ NPages(server) >= 2
      /\ \A k \in 1..NPages(server) : server.sizes[k] >= 1
      /\ Len(seq[h].yielded) >= 3

\* the number of pages all of whose records are among the first n consumed
ConsumedPages(srv, n) ==
    Cardinality({k \in 1..NPages(srv) : Len(IdsUpTo(srv, k)) <= n})

\* C2: pagination is lazy: while a record of page k is buffered, no request
\* for a later page has been issued, and at most one page beyond those fully
\* consumed has been fetched.
C2_Lazy ==
    \A h \in SeqIds :
      LET s == seq[h]
      IN  Paged(h) =>
            /\ Len(s.requests) <= ConsumedPages(server, Len(s.yielded)) + 1
            /\ s.buffer # <<>> =>
                 \A i \in 1..Len(s.requests) :
                    PageOf(s.requests[i])
                      <= RecordPagesUpTo(server, NPages(server))[Len(s.yielded) + 1]

C2_Witness ==
    \E h \in SeqIds :
      /\ Paged(h)
      /\ NPages(server) >= 2
      /\ seq[h].yielded # <<>>
      /\ seq[h].buffer # <<>>
      /\ Len(seq[h].requests) = 1

\* C3: a listing call with raw=True issues exactly one request, for page
\* one, and returns that page's response as served, never decoding it (not
\* even when the body is not JSON) and never following a cursor.
C3_RawBypass ==
    \A h \in SeqIds :
      LET s == seq[h]
      IN  (s.st # "NONE" /\ s.args.raw) =>
            /\ Len(s.requests) = 1
            /\ PageOf(s.requests[1]) = 1
            /\ s.parsed = 0
            /\ s.error # "DecodeError"
            /\ s.yielded = <<>> /\ s.buffer = <<>>
            /\ s.st \in {"RAW", "RAISED"}
            /\ Serve(server, s.requests[1]).status = 200 =>
                 /\ s.st = "RAW"
                 /\ s.response = Serve(server, s.requests[1])

C3_Witness ==
    \E h \in SeqIds :
      /\ seq[h].args.raw
      /\ seq[h].st = "RAW"
      /\ ~seq[h].response.body.valid
      /\ NPages(server) >= 2

\* C9: when the request for page k >= 2 fails, the records of pages 1..k-1
\* have all been handed out unchanged, and the failure is raised by the
\* advancement after the last of them: not by the call, not while a record
\* is buffered, not retried and not suppressed.
C9_FailureAtAdvance ==
    \A h \in SeqIds :
      LET s == seq[h]
          k == server.fault.page
          before == IdsUpTo(server, k - 1)
      IN  (Paged(h) /\ k >= 2) =>
            /\ s.st = "FAILED" =>
                 /\ Len(s.requests) = k
                 /\ Ids(s.yielded) = before
                 /\ s.buffer = <<>>
                 /\ s.advances = Len(before) + 1
                 /\ s.error = IF server.fault.kind = "http"
                              THEN "HTTPError" ELSE "DecodeError"
            /\ s.advances > Len(before) => s.st = "FAILED"
            /\ s.advances <= Len(before) =>
                 /\ s.st \in {"FETCHING", "YIELDING"}
                 /\ Ids(s.yielded) = SubSeq(before, 1, s.advances)
            /\ Cardinality({i \in 1..Len(s.requests) : PageOf(s.requests[i]) = k}) <= 1

C9_Witness ==
    \E h \in SeqIds :
      /\ Paged(h)
      /\ seq[h].st = "FAILED"
      /\ Len(seq[h].requests) >= 2
      /\ Len(seq[h].yielded) >= 1

\* the state of a sequence that is created by the same call as s and then
\* advanced, alone, as often as s has been advanced
RECURSIVE AdvancedAlone(_, _, _)
AdvancedAlone(srv, s, n) ==
    IF n = 0 THEN s
    ELSE AdvancedAlone(srv, [Drive(srv, s) EXCEPT !.advances = @ + 1], n - 1)

Alone(srv, s) ==
    AdvancedAlone(srv, ListingResult(srv, s.method, s.args), s.advances)

IndependentStep ==
    /\ \A h \in SeqIds, g \in SeqIds :
         (h # g /\ seq'[h] # seq[h]) => seq'[g] = seq[g]
    /\ \A h \in SeqIds :
         seq'[h].st # "NONE" => seq'[h] = Alone(server', seq'[h])

\* C10: two sequences are independent: a step that advances or creates one
\* leaves the other's state as it was, and after every step each sequence
\* is in the state it would be in had it been consumed alone from page one.
C10_Independent == [][IndependentStep]_vars

C10_Witness ==
    /\ Paged("s1") /\ Paged("s2")
    /\ seq["s1"].st = "YIELDING" /\ seq["s2"].st = "YIELDING"
    /\ seq["s1"].advances = 1
    /\ seq["s2"].advances >= 2
    /\ Len(seq["s2"].requests) = 2

\* the sequences (or raw responses) whose first request has been issued
Requested(h) == seq[h].st # "NONE" /\ seq[h].requests # <<>>

FirstQuery(h) == seq[h].requests[1].query

Unset(h) == Signature(seq[h].method) \ DOMAIN seq[h].args.named

\* C4 as stated: the first request's query has no key for any named
\* parameter the caller left unset.
C4_NoKeyForUnset ==
    \A h \in SeqIds :
      Requested(h) =>
        \A p \in Unset(h) : QueryKey(p) \notin DOMAIN FirstQuery(h)

\* C4 (amended): the first request's query has no key for a named parameter
\* the caller left unset, unless the free-form params mapping supplies that
\* key itself, in which case the key carries the mapping's value; no key
\* carries an empty or null value.
C4_UnsetOmitted ==
    \A h \in SeqIds :
      Requested(h) =>
        /\ \A p \in Unset(h) :
             QueryKey(p) \in DOMAIN FirstQuery(h) =>
               /\ QueryKey(p) \in DOMAIN seq[h].args.extra
               /\ FirstQuery(h)[QueryKey(p)] = seq[h].args.extra[QueryKey(p)]
        /\ \A k \in DOMAIN FirstQuery(h) : FirstQuery(h)[k] \notin {None, Str("")}

C4_Witness ==
    \E h \in SeqIds :
      /\ Requested(h)
      /\ seq[h].method = "list_tickers"
      /\ DOMAIN seq[h].args.named = {<<"ticker", "gte">>, <<"limit">>}
      /\ seq[h].args.named[<<"limit">>] = Num(0)
      /\ DOMAIN FirstQuery(h) = {"ticker.gte", "limit"}
      /\ FirstQuery(h)["limit"] = Num(0)

\* p belongs to a comparison family of method m: it carries a suffix, or the
\* method declares its _lt companion
InFamily(m, p) == HasSuffix(p) \/ Append(p, "lt") \in Signature(m)

\* C5: each supplied member of a comparison family has its own query key:
\* the argument name with only the separator before the suffix turned into
\* a dot; the key carries that member's value, and a suffixed member neither
\* creates nor changes the entry under the plain field key.
C5_ComparisonKeys ==
    \A h \in SeqIds :
      Requested(h) =>
        LET named == seq[h].args.named
            extra == seq[h].args.extra
            q == FirstQuery(h)
        IN  \A p \in DOMAIN named :
              InFamily(seq[h].method, p) =>
                LET field == ArgName(FieldOf(p))
                    key == IF HasSuffix(p) THEN field \o "." \o p[Len(p)] ELSE field
                IN  /\ key \in DOMAIN q
                    /\ key \notin DOMAIN extra => q[key] = Wire(named[p])
                    /\ (HasSuffix(p) /\ FieldOf(p) \notin DOMAIN named
                         /\ field \notin DOMAIN extra) => field \notin DOMAIN q

C5_Witness ==
    \E h \in SeqIds :
      /\ Requested(h)
      /\ seq[h].method = "list_dividends"
      /\ DOMAIN seq[h].args.named =
           {<<"ex", "dividend", "date">>, <<"ex", "dividend", "date", "lt">>}
      /\ seq[h].args.named[<<"ex", "dividend", "date">>] = Date(2022, 1, 5)
      /\ seq[h].args.named[<<"ex", "dividend", "date", "lt">>] = Str("a")
      /\ FirstQuery(h)["ex_dividend_date"] = Str("2022-01-05")
      /\ FirstQuery(h)["ex_dividend_date.lt"] = Str("a")

\* C6: the free-form params mapping is merged in last: every entry of it is
\* sent as given, also under a key a named parameter computes a value for.
C6_ExtraWins ==
    \A h \in SeqIds :
      Requested(h) =>
        \A k \in DOMAIN seq[h].args.extra :
          /\ k \in DOMAIN FirstQuery(h)
          /\ FirstQuery(h)[k] = seq[h].args.extra[k]

C6_Witness ==
    \E h \in SeqIds :
      /\ Requested(h)
      /\ seq[h].method = "list_conditions"
      /\ DOMAIN seq[h].args.named = {<<"asset", "class">>}
      /\ seq[h].args.named[<<"asset", "class">>] = EnumMember("asc")
      /\ DOMAIN seq[h].args.extra = {"asset_class"}
      /\ FirstQuery(h)["asset_class"] = Str("x")

\* the named filter parameters of the single-response methods
SingleFilters(m) ==
    CASE m = "get_ticker_details" -> {<<"date">>}
      [] m = "get_ticker_types" -> {<<"asset", "class">>, <<"locale">>}
      [] m = "get_exchanges" -> {<<"asset", "class">>, <<"locale">>}
      [] OTHER -> {}

\* C7: a value supplied for a named filter parameter of a single-response
\* method (date; asset_class, locale) is in the query of the request issued.
C7_SingleFiltersSent ==
    ret.called =>
      \A p \in (DOMAIN ret.args.named) \cap SingleFilters(ret.method) :
        /\ ArgName(p) \in DOMAIN ret.requests[1].query
        /\ ArgName(p) \notin DOMAIN ret.args.extra =>
             ret.requests[1].query[ArgName(p)] = Wire(ret.args.named[p])

\* the result key of each single-response method
SingleKey(m) ==
    IF m \in {"get_market_holidays", "get_market_status"} THEN "" ELSE "results"

\* C8: a non-raw single-response call issues exactly one GET, follows no
\* cursor, and returns the decoding of the value at the method's result key
\* (the whole body for the empty key): one record for an object, one record
\* per element, in element order, for an array.
C8_SingleResponse ==
    (ret.called /\ ~ret.args.raw) =>
      LET o == ret.outcome
          body == ret.served.body.json
          key == SingleKey(ret.method)
      IN  /\ Len(ret.requests) = 1
          /\ ret.requests[1].verb = "GET"
          /\ ret.requests[1].path = Path(ret.method, ret.args.named)
          /\ "cursor" \notin DOMAIN ret.requests[1].query
          /\ (/\ ret.served.status = 200
              /\ ret.served.body.valid
              /\ key # "" => (body.t = "obj" /\ key \in DOMAIN body.v)) =>
               LET val == IF key = "" THEN body ELSE body.v[key]
               IN  /\ o.kind = "decoded"
                   /\ val.t = "obj" =>
                        /\ o.single
                        /\ Len(o.records) = 1
                        /\ o.records[1].id =
                             IF "id" \in DOMAIN val.v THEN val.v.id ELSE "None"
                   /\ val.t = "arr" =>
                        /\ ~o.single
                        /\ Len(o.records) = Len(val.v)
                        /\ \A i \in 1..Len(val.v) : o.records[i].id = val.v[i].v.id

C8_Witness ==
    /\ ret.called /\ ~ret.args.raw
    /\ ret.method = "get_market_status"
    /\ ret.served.status = 200 /\ ret.served.body.valid
    /\ ret.served.body.json = JsonRecord(1, 1)
    /\ ret.outcome.single
    /\ Ids(ret.outcome.records) = <<RecordId(1, 1)>>

====
